---------------------------- MODULE Spec2Model ----------------------------
(***************************************************************************)
(* MicroTorch: the MicroTensor autodiff engine (src/engine.py) and the     *)
(* Module.zero_grad reset (src/nn.py).                                     *)
(*                                                                         *)
(* A MicroTensor object is an entry of the sequence `nodes'; its identity  *)
(* is its index.  numpy arrays are records [shape, v]: shape is <<>> for a *)
(* 0-d array (a coerced raw scalar) or <<rows, cols>>, v the entries in    *)
(* row-major order.  Entries are exact rationals <<num, den>> standing for *)
(* the float entries.  A numpy call that raises yields Err.                *)
(***************************************************************************)
EXTENDS Integers, Sequences, FiniteSets

\* ------------------------------------------------------------- bounds
\* MaxDim: the leaves are 1 x MaxDim, MaxDim x MaxDim and MaxDim x (MaxDim + 1).  MaxLeaves: the leaves the user builds.
\* MaxNodes: the objects a run builds.  Budget: a run goes on as long as
\* objects + backward() calls + track_grad() calls stays within Budget.
MaxDim == 2
MaxLeaves == 2
MaxNodes == 4
Budget == 5

\* ---------------------------------------------------------- rationals
Abs(x) == IF x < 0 THEN -x ELSE x

RECURSIVE Gcd(_, _)
Gcd(a, b) == IF b = 0 THEN a ELSE Gcd(b, a % b)

Q(n, d) == LET g == Gcd(Abs(n), d) IN <<n \div g, d \div g>>

QInt(n) == <<n, 1>>

QAdd(x, y) == Q(x[1] * y[2] + y[1] * x[2], x[2] * y[2])

QMul(x, y) == Q(x[1] * y[1], x[2] * y[2])

QDivInt(x, k) == Q(x[1], x[2] * k)

QPos(x) == x[1] > 0

QNeg(x) == x[1] < 0

\* ------------------------------------------------------- numpy arrays
Err == [shape |-> <<>>, v |-> <<>>]

IsErr(t) == Len(t.v) = 0

NDim(s) == Len(s)

Rows(s) == IF Len(s) = 0 THEN 1 ELSE s[1]

Cols(s) == IF Len(s) = 0 THEN 1 ELSE s[2]

\* The sequence <<g[1], ..., g[n]>>, each entry computed once.
RECURSIVE Tuple(_, _)
Tuple(n, g) == IF n = 0 THEN <<>> ELSE Append(Tuple(n - 1, g), g[n])

\* Entry (i, j) of t read with numpy's broadcasting: an axis of length 1 (or a
\* missing axis) repeats its only entry.
Elem(t, i, j) ==
    LET r == IF Rows(t.shape) = 1 THEN 1 ELSE i
        c == IF Cols(t.shape) = 1 THEN 1 ELSE j
    IN  t.v[(r - 1) * Cols(t.shape) + c]

\* The array of shape s whose entry (i, j) is f[<<i, j>>].
Mk(s, f) ==
    [shape |-> s,
     v |-> Tuple(Rows(s) * Cols(s),
                 [k \in 1..(Rows(s) * Cols(s)) |->
                    f[<<((k - 1) \div Cols(s)) + 1, ((k - 1) % Cols(s)) + 1>>]])]

Idx(s) == (1..Rows(s)) \X (1..Cols(s))

Fill(s, x) == Mk(s, [p \in Idx(s) |-> x])

Zeros(s) == Fill(s, QInt(0))

Ones(s) == Fill(s, QInt(1))

\* An elementwise operation that would accept equal shapes only.
SameShape(s1, s2) == s1 = s2

\* numpy's broadcasting rule for shapes of 0 or 2 axes.
Broadcastable(s1, s2) ==
    \/ Len(s1) = 0
    \/ Len(s2) = 0
    \/ /\ (s1[1] = s2[1] \/ s1[1] = 1 \/ s2[1] = 1)
       /\ (s1[2] = s2[2] \/ s1[2] = 1 \/ s2[2] = 1)

Max(a, b) == IF a >= b THEN a ELSE b

BShape(s1, s2) ==
    IF Len(s1) = 0 THEN s2
    ELSE IF Len(s2) = 0 THEN s1
    ELSE <<Max(s1[1], s2[1]), Max(s1[2], s2[2])>>

\* np.add(a, b) and a + b on arrays.
NpAdd(a, b) ==
    IF IsErr(a) \/ IsErr(b) THEN Err
    ELSE IF ~Broadcastable(a.shape, b.shape) THEN Err
    ELSE LET s == BShape(a.shape, b.shape)
         IN  Mk(s, [p \in Idx(s) |-> QAdd(Elem(a, p[1], p[2]), Elem(b, p[1], p[2]))])

\* np.multiply(a, b) and a * b on arrays.
NpMultiply(a, b) ==
    IF IsErr(a) \/ IsErr(b) THEN Err
    ELSE IF ~Broadcastable(a.shape, b.shape) THEN Err
    ELSE LET s == BShape(a.shape, b.shape)
         IN  Mk(s, [p \in Idx(s) |-> QMul(Elem(a, p[1], p[2]), Elem(b, p[1], p[2]))])

\* a += b on arrays: the sum is written into a, whose shape cannot change.
NpIAdd(a, b) ==
    IF IsErr(a) \/ IsErr(b) THEN Err
    ELSE IF ~Broadcastable(a.shape, b.shape) THEN Err
    ELSE IF BShape(a.shape, b.shape) # a.shape THEN Err
    ELSE NpAdd(a, b)

RECURSIVE DotSum(_, _, _, _, _)
DotSum(a, b, i, j, k) ==
    IF k = 0 THEN QInt(0)
    ELSE QAdd(DotSum(a, b, i, j, k - 1),
              QMul(a.v[(i - 1) * a.shape[2] + k], b.v[(k - 1) * b.shape[2] + j]))

\* a @ b on arrays (np.matmul): no 0-d operand, inner dimensions equal.
NpMatmul(a, b) ==
    IF IsErr(a) \/ IsErr(b) THEN Err
    ELSE IF Len(a.shape) = 0 \/ Len(b.shape) = 0 THEN Err
    ELSE IF a.shape[2] # b.shape[1] THEN Err
    ELSE LET s == <<a.shape[1], b.shape[2]>>
         IN  Mk(s, [p \in Idx(s) |-> DotSum(a, b, p[1], p[2], a.shape[2])])

\* np.dot(a, b): as a @ b on 2-d arrays, a product by the scalar on a 0-d one.
NpDot(a, b) ==
    IF IsErr(a) \/ IsErr(b) THEN Err
    ELSE IF Len(a.shape) = 0 \/ Len(b.shape) = 0 THEN NpMultiply(a, b)
    ELSE NpMatmul(a, b)

\* a.T
NpT(a) ==
    IF IsErr(a) \/ Len(a.shape) = 0 THEN a
    ELSE LET s == <<a.shape[2], a.shape[1]>>
         IN  Mk(s, [p \in Idx(s) |-> Elem(a, p[2], p[1])])

RECURSIVE RowSum(_, _, _)
RowSum(a, i, k) ==
    IF k = 0 THEN QInt(0) ELSE QAdd(RowSum(a, i, k - 1), a.v[(i - 1) * a.shape[2] + k])

\* np.sum(a, axis=1, keepdims=True) / a.shape[1]
RowMean(a) ==
    IF IsErr(a) \/ Len(a.shape) = 0 THEN Err
    ELSE LET s == <<a.shape[1], 1>>
         IN  Mk(s, [p \in Idx(s) |-> QDivInt(RowSum(a, p[1], a.shape[2]), a.shape[2])])

\* a / k for an integer k
NpDivInt(a, k) ==
    IF IsErr(a) THEN Err
    ELSE [shape |-> a.shape, v |-> Tuple(Len(a.v), [i \in 1..Len(a.v) |-> QDivInt(a.v[i], k)])]

\* temp[temp < 0] = 0 on a copy of a
NpClip(a) ==
    [shape |-> a.shape,
     v |-> Tuple(Len(a.v), [i \in 1..Len(a.v) |-> IF QNeg(a.v[i]) THEN QInt(0) ELSE a.v[i]])]

\* A relu rule that also lets the gradient through where the output is zero:
\* (a >= 0) in place of (a > 0).
NpNonNegative(a) ==
    [shape |-> a.shape,
     v |-> Tuple(Len(a.v), [i \in 1..Len(a.v) |-> IF QNeg(a.v[i]) THEN QInt(0) ELSE QInt(1)])]

\* (a > 0) as an array of 0 and 1
NpPositive(a) ==
    [shape |-> a.shape,
     v |-> Tuple(Len(a.v), [i \in 1..Len(a.v) |-> IF QPos(a.v[i]) THEN QInt(1) ELSE QInt(0)])]


\* ------------------------------------------------------------- state
VARIABLES
    nodes,      \* the MicroTensor objects ever constructed and still referenced
    trackGrad,  \* MicroTensor._trackGrad
    scopes,     \* the active track_grad() contexts, innermost last
    exc,        \* an exception is propagating to the caller
    unwound,    \* the with blocks the propagating exception has left
    npasses,    \* backward() calls made so far
    nenters,    \* track_grad() calls made so far
    last,       \* the latest operator call: operator, node operands, whether it raised
    pass        \* the latest backward() call: its root, the rules it invoked, the heaps

vars == <<nodes, trackGrad, scopes, exc, unwound, npasses, nenters, last, pass>>

\* The leaves the user builds: entry (i, j) is base + the row-major position.
LeafBases == {-1}

LeafShapes == {<<1, MaxDim>>, <<MaxDim, MaxDim>>, <<MaxDim, MaxDim + 1>>}

LeafData(s, base) == Mk(s, [p \in Idx(s) |-> QInt(base + (p[1] - 1) * s[2] + (p[2] - 1))])

\* Raw Python numbers handed to an operator in place of a MicroTensor.
RawVals == {2}

Scalar(x) == [shape |-> <<>>, v |-> <<QInt(x)>>]

\* MicroTensor.__init__, with the _backward the caller installs right after it.
\* name keeps the label's kind; op, args and born record the call that built the
\* node: the operator, its operands and the toggle's value at that time.
MicroTensor(data, name, children, rule, op, args, born) ==
    [data |-> data, grad |-> Zeros(data.shape), name |-> name,
     prev |-> children, rule |-> rule, op |-> op, args |-> args, born |-> born]

NoCall == [op |-> "none", args |-> <<>>, raised |-> FALSE]

NoPass == [root |-> 0, called |-> <<>>, trail |-> <<>>, before |-> <<>>,
           raised |-> FALSE]

\* The result of an operator on heap h: the heap after it, the node it returns.
Ok(h, out) == [h |-> h, out |-> out, ok |-> TRUE]

Raise(h) == [h |-> h, out |-> 0, ok |-> FALSE]

\* other if isinstance(other, MicroTensor) else MicroTensor(np.asarray(other), 'unk')
Coerce(h, raw) ==
    Ok(Append(h, MicroTensor(Scalar(raw), "unk", <<>>, "none", "unk", <<>>, TRUE)),
       Len(h) + 1)

\* An operation that would record its operands whatever the toggle says.
ChildrenAlways(t, args) == args

\* (self, other) if (self._trackGrad and other._trackGrad) else ()
Children(t, args) == IF t THEN args ELSE <<>>

\* _backward if (self._trackGrad and other._trackGrad) else lambda: None
Rule(t, rule) == IF t THEN rule ELSE "none"

Result(h, t, data, op, args) ==
    IF IsErr(data) THEN Raise(h)
    ELSE Ok(Append(h, MicroTensor(data, "op", Children(t, args), Rule(t, op), op, args, t)),
            Len(h) + 1)

add(h, t, self, other) ==
    Result(h, t, NpAdd(h[self].data, h[other].data), "add", <<self, other>>)

matmul(h, t, self, other) ==
    Result(h, t, NpDot(h[self].data, h[other].data), "matmul", <<self, other>>)

mul(h, t, self, other) ==
    Result(h, t, NpMultiply(h[self].data, h[other].data), "mul", <<self, other>>)

relu(h, t, self) == Result(h, t, NpClip(h[self].data), "relu", <<self>>)

T(h, t, self) == Result(h, t, NpT(h[self].data), "T", <<self>>)

\* self * -1
neg(h, t, self) == LET c == Coerce(h, -1) IN mul(c.h, t, self, c.out)

\* self + (-other)
sub(h, t, self, other) ==
    LET n == neg(h, t, other)
    IN  IF ~n.ok THEN Raise(h) ELSE add(n.h, t, self, n.out)

\* self <op> raw: the raw number is coerced first
binaryRaw(h, t, op, self, raw) ==
    LET c == Coerce(h, raw)
    IN  CASE op = "add" -> add(c.h, t, self, c.out)
          [] op = "matmul" -> matmul(c.h, t, self, c.out)
          [] op = "mul" -> mul(c.h, t, self, c.out)

\* raw <op> self: __radd__, __rsub__, __rmul__
reflected(h, t, op, raw, self) ==
    LET c == Coerce(h, raw)
    IN  CASE op = "radd" -> add(c.h, t, c.out, self)
          [] op = "rmul" -> mul(c.h, t, c.out, self)
          [] op = "rsub" -> LET n == neg(c.h, t, self)
                            IN  IF ~n.ok THEN Raise(h) ELSE add(n.h, t, c.out, n.out)

\* ------------------------------------------------------ backward rules
SetGrad(h, n, g) == [h EXCEPT ![n].grad = g]

\* One accumulation statement of a rule, "x.grad = x.grad + c" or "x.grad += c",
\* on heap r.h; a statement after one that raised is not run.
Accumulate(r, n, g) ==
    IF ~r.ok THEN r
    ELSE IF IsErr(g) THEN [h |-> r.h, ok |-> FALSE]
    ELSE [h |-> SetGrad(r.h, n, g), ok |-> TRUE]

\* __add__._backward of node out
addBackward(h, out) ==
    LET self == h[out].prev[1]
        other == h[out].prev[2]
        r1 == Accumulate([h |-> h, ok |-> TRUE], self,
                         NpAdd(h[self].grad, RowMean(h[out].grad)))
    IN  Accumulate(r1, other, NpAdd(r1.h[other].grad, RowMean(r1.h[out].grad)))

\* __matmul__._backward of node out
matmulBackward(h, out) ==
    LET self == h[out].prev[1]
        other == h[out].prev[2]
        r1 == Accumulate([h |-> h, ok |-> TRUE], self,
                         NpIAdd(h[self].grad, NpMatmul(h[out].grad, NpT(h[other].data))))
    IN  Accumulate(r1, other,
                   NpIAdd(r1.h[other].grad,
                          NpDivInt(NpMatmul(NpT(r1.h[self].data), r1.h[out].grad),
                                   Rows(r1.h[self].data.shape))))

\* __mul__._backward of node out
mulBackward(h, out) ==
    LET self == h[out].prev[1]
        other == h[out].prev[2]
        r1 == Accumulate([h |-> h, ok |-> TRUE], self,
                         NpIAdd(h[self].grad, NpMultiply(h[other].data, h[out].grad)))
    IN  Accumulate(r1, other,
                   NpIAdd(r1.h[other].grad, NpMultiply(r1.h[self].data, r1.h[out].grad)))

\* relu._backward of node out
reluBackward(h, out) ==
    LET self == h[out].prev[1]
    IN  Accumulate([h |-> h, ok |-> TRUE], self,
                   NpIAdd(h[self].grad, NpMultiply(NpPositive(h[out].data), h[out].grad)))

\* T._backward of node out
TBackward(h, out) ==
    LET self == h[out].prev[1]
    IN  Accumulate([h |-> h, ok |-> TRUE], self, NpIAdd(h[self].grad, NpT(h[out].grad)))

\* c._backward()
InvokeRule(h, c) ==
    CASE h[c].rule = "add" -> addBackward(h, c)
      [] h[c].rule = "matmul" -> matmulBackward(h, c)
      [] h[c].rule = "mul" -> mulBackward(h, c)
      [] h[c].rule = "relu" -> reluBackward(h, c)
      [] h[c].rule = "T" -> TBackward(h, c)
      [] OTHER -> [h |-> h, ok |-> TRUE]

\* ---------------------------------------------------------- backward()
InSeq(x, seq) == \E i \in 1..Len(seq) : seq[i] = x

\* A traversal without the "x not in children" test: a node is appended once per
\* path that leads to it.
RECURSIVE traverseAll(_, _, _)
RECURSIVE traverseAllPrev(_, _, _, _)
traverseAll(h, x, children) == Append(traverseAllPrev(h, h[x].prev, 1, children), x)

traverseAllPrev(h, ps, i, children) ==
    IF i > Len(ps) THEN children
    ELSE traverseAllPrev(h, ps, i + 1, traverseAll(h, ps[i], children))

\* traverse(x): post-order, a node already in children is skipped
RECURSIVE traverse(_, _, _)
RECURSIVE traversePrev(_, _, _, _)
traverse(h, x, children) ==
    IF InSeq(x, children) THEN children
    ELSE Append(traversePrev(h, h[x].prev, 1, children), x)

traversePrev(h, ps, i, children) ==
    IF i > Len(ps) THEN children
    ELSE traversePrev(h, ps, i + 1, traverse(h, ps[i], children))

\* A loop over children in the order of the traversal, without reversed().
InOrder(seq) == seq

Reversed(seq) == Tuple(Len(seq), [i \in 1..Len(seq) |-> seq[Len(seq) + 1 - i]])

\* A seeding step that would also reset every other grad to zero.
SeedAndReset(h, self) ==
    Tuple(Len(h), [n \in 1..Len(h) |->
        [h[n] EXCEPT !.grad = IF n = self THEN Ones(h[n].data.shape)
                                ELSE Zeros(h[n].grad.shape)]])

Seed(h, self) == SetGrad(h, self, Ones(h[self].data.shape))

\* for c in reversed(children): c._backward()   -- from position i of order on;
\* p collects the rules invoked and the heap after each one.  A rule that raises
\* ends the loop.
RECURSIVE RunRules(_, _, _)
RunRules(p, order, i) ==
    IF i > Len(order) THEN p
    ELSE LET r == InvokeRule(p.trail[Len(p.trail)], order[i])
             q == [p EXCEPT !.called = Append(@, order[i]),
                            !.trail = Append(@, r.h),
                            !.raised = ~r.ok]
         IN  IF r.ok THEN RunRules(q, order, i + 1) ELSE q

\* self.backward() on heap h
backward(h, self) ==
    LET children == traverse(h, self, <<>>)
        seeded == Seed(h, self)
    IN  RunRules([root |-> self, called |-> <<>>, trail |-> <<seeded>>,
                  before |-> h, raised |-> FALSE],
                 Reversed(children), 1)

\* ------------------------------------------------------------ actions
Spent == Len(nodes) + npasses + nenters

Leaves == {MicroTensor(LeafData(s, b), "leaf", <<>>, "none", "leaf", <<>>, TRUE) :
             s \in LeafShapes, b \in LeafBases}

\* The nodes the caller holds a reference to: a coerced operand is reachable only
\* through the node built from it.
Held == {i \in 1..Len(nodes) : nodes[i].name # "unk"}

Init ==
    /\ nodes \in UNION {[1..n -> Leaves] : n \in 1..MaxLeaves}
    /\ trackGrad = TRUE
    /\ scopes = <<>>
    /\ exc = FALSE
    /\ unwound = 0
    /\ npasses = 0
    /\ nenters = 0
    /\ last = NoCall
    /\ pass = NoPass

\* An operator call that builds at most k objects and returns r: the node is
\* built, or the call raises and the objects it built on the way are dropped.
Call(op, args, k, r) ==
    /\ ~exc
    /\ Len(nodes) + k <= MaxNodes
    /\ Spent + k <= Budget
    /\ nodes' = IF r.ok THEN r.h ELSE nodes
    /\ exc' = ~r.ok
    /\ last' = [op |-> op, args |-> args, raised |-> ~r.ok]
    /\ pass' = NoPass
    /\ UNCHANGED <<trackGrad, scopes, unwound, npasses, nenters>>

Add(a, b) == Call("add", <<a, b>>, 1, add(nodes, trackGrad, a, b))

Matmul(a, b) == Call("matmul", <<a, b>>, 1, matmul(nodes, trackGrad, a, b))

Mul(a, b) == Call("mul", <<a, b>>, 1, mul(nodes, trackGrad, a, b))

Relu(a) == Call("relu", <<a>>, 1, relu(nodes, trackGrad, a))

Transpose(a) == Call("T", <<a>>, 1, T(nodes, trackGrad, a))

Neg(a) == Call("neg", <<a>>, 2, neg(nodes, trackGrad, a))

Sub(a, b) == Call("sub", <<a, b>>, 3, sub(nodes, trackGrad, a, b))

BinaryRaw(op, a, raw) == Call(op, <<a>>, 2, binaryRaw(nodes, trackGrad, op, a, raw))

Reflected(op, raw, a) ==
    Call(op, <<a>>, IF op = "rsub" THEN 4 ELSE 2, reflected(nodes, trackGrad, op, raw, a))

\* x.backward()
Backward(x) ==
    /\ ~exc
    /\ Spent < Budget
    /\ LET p == backward(nodes, x)
       IN  /\ pass' = p
           /\ nodes' = p.trail[Len(p.trail)]
           /\ exc' = p.raised
    /\ npasses' = npasses + 1
    /\ last' = NoCall
    /\ UNCHANGED <<trackGrad, scopes, unwound, nenters>>

\* Module.zero_grad() of a module whose parameters() are the leaves the user built
parameters == {i \in 1..Len(nodes) : nodes[i].name = "leaf"}

ZeroGrad ==
    /\ ~exc
    /\ \E i \in parameters : nodes[i].grad # Zeros(nodes[i].grad.shape)
    /\ nodes' = [i \in 1..Len(nodes) |->
                   IF i \in parameters
                   THEN [nodes[i] EXCEPT !.grad = Zeros(nodes[i].grad.shape)]
                   ELSE nodes[i]]
    /\ last' = NoCall
    /\ pass' = NoPass
    /\ UNCHANGED <<trackGrad, scopes, exc, unwound, npasses, nenters>>

\* with MicroTensor.track_grad(state): -- up to the yield.  prev is the generator's
\* local _prev; held and state record the call: the toggle's value when the scope
\* is entered and the value asked for.
SavedPrev(toggle, state) == toggle

Enter(state) ==
    /\ ~exc
    /\ Spent < Budget
    /\ scopes' = Append(scopes, [prev |-> SavedPrev(trackGrad, state), held |-> trackGrad,
                                state |-> state])
    /\ trackGrad' = state
    /\ nenters' = nenters + 1
    /\ last' = NoCall
    /\ pass' = NoPass
    /\ UNCHANGED <<nodes, exc, unwound, npasses>>

\* A finally clause that would put the toggle back to its default.
RestoreDefault(scope) == TRUE

\* finally: MicroTensor._trackGrad = _prev
Restore(scope) == scope.prev

\* The body of the innermost with block ends normally.
Exit ==
    /\ ~exc
    /\ Len(scopes) > 0
    /\ trackGrad' = Restore(scopes[Len(scopes)])
    /\ scopes' = SubSeq(scopes, 1, Len(scopes) - 1)
    /\ last' = NoCall
    /\ pass' = NoPass
    /\ UNCHANGED <<nodes, exc, unwound, npasses, nenters>>

\* The exception leaves the innermost with block: its finally clause runs and the
\* exception goes on to the enclosing code.
Unwind ==
    /\ exc
    /\ Len(scopes) > 0
    /\ trackGrad' = Restore(scopes[Len(scopes)])
    /\ scopes' = SubSeq(scopes, 1, Len(scopes) - 1)
    /\ unwound' = unwound + 1
    /\ UNCHANGED <<nodes, exc, npasses, nenters, last, pass>>

\* The caller's except clause takes the exception.
Catch ==
    /\ exc
    /\ exc' = FALSE
    /\ unwound' = 0
    /\ last' = NoCall
    /\ pass' = NoPass
    /\ UNCHANGED <<nodes, trackGrad, scopes, npasses, nenters>>

Next ==
    \/ \E a \in Held, b \in Held : Add(a, b)
    \/ \E a \in Held, b \in Held : Matmul(a, b)
    \/ \E a \in Held, b \in Held : Mul(a, b)
    \/ \E a \in Held : Relu(a)
    \/ \E a \in Held : Transpose(a)
    \/ \E a \in Held : Neg(a)
    \/ \E a \in Held, b \in Held : Sub(a, b)
    \/ \E op \in {"add", "matmul", "mul"}, a \in Held, raw \in RawVals : BinaryRaw(op, a, raw)
    \/ \E op \in {"radd", "rsub", "rmul"}, a \in Held, raw \in RawVals : Reflected(op, raw, a)
    \/ \E x \in Held : Backward(x)
    \/ ZeroGrad
    \/ \E state \in BOOLEAN : Enter(state)
    \/ Exit
    \/ Unwind
    \/ Catch

Spec == Init /\ [][Next]_vars

\* ----------------------------------------------- the latest backward()
Ran == pass.root # 0

Completed == Ran /\ ~pass.raised

Parents(h, n) == {h[n].prev[i] : i \in 1..Len(h[n].prev)}

\* The nodes reachable from the nodes of S through recorded parent edges.
RECURSIVE Reach(_, _)
Reach(h, S) ==
    LET N == S \cup UNION {Parents(h, n) : n \in S}
    IN  IF N = S THEN S ELSE Reach(h, N)

Reachable == Reach(pass.before, {pass.root})

Times(x, seq) == Cardinality({i \in 1..Len(seq) : seq[i] = x})

ZeroGradAt(h, n) == h[n].grad = Zeros(h[n].data.shape)

\* What the rule of node out hands to its i-th operand when out's grad is g: the
\* table of backward rules, one entry per operation and operand.
Contribution(h, out, i, g) ==
    LET self == h[out].prev[1]
        other == h[out].prev[Len(h[out].prev)]
    IN  CASE h[out].rule = "add" -> RowMean(g)
          [] h[out].rule = "matmul" /\ i = 1 -> NpMatmul(g, NpT(h[other].data))
          [] h[out].rule = "matmul" /\ i = 2 ->
                IF Len(h[self].data.shape) = 0 THEN Err
                ELSE NpDivInt(NpMatmul(NpT(h[self].data), g), h[self].data.shape[1])
          [] h[out].rule = "mul" /\ i = 1 -> NpMultiply(h[other].data, g)
          [] h[out].rule = "mul" /\ i = 2 -> NpMultiply(h[self].data, g)
          [] h[out].rule = "relu" -> NpMultiply(NpPositive(h[out].data), g)
          [] h[out].rule = "T" -> NpT(g)

\* The seed carried from node n, where it is g, to node t along every recorded
\* path, and summed: a contribution lands in the operand's buffer-shaped zeros.
RECURSIVE PathGrad(_, _, _, _)
RECURSIVE PathGradFrom(_, _, _, _, _)
PathGrad(h, n, g, t) == IF n = t THEN g ELSE PathGradFrom(h, n, g, t, Len(h[n].prev))

PathGradFrom(h, n, g, t, i) ==
    IF i = 0 THEN Zeros(h[t].data.shape)
    ELSE LET p == h[n].prev[i]
             rest == PathGradFrom(h, n, g, t, i - 1)
         IN  IF t \in Reach(h, {p})
             THEN NpAdd(rest, PathGrad(h, p, NpAdd(Zeros(h[p].data.shape),
                                                  Contribution(h, n, i, g)), t))
             ELSE rest

RECURSIVE NPaths(_, _, _)
RECURSIVE NPathsFrom(_, _, _, _)
NPaths(h, n, t) == IF n = t THEN 1 ELSE NPathsFrom(h, n, t, Len(h[n].prev))

NPathsFrom(h, n, t, i) ==
    IF i = 0 THEN 0 ELSE NPathsFrom(h, n, t, i - 1) + NPaths(h, h[n].prev[i], t)

SeedOf(h, r) == Ones(h[r].data.shape)

FreshBelowRoot == \A n \in Reachable \ {pass.root} : ZeroGradAt(pass.before, n)

C2_EachRuleOnce == Ran => \A n \in Reachable : Times(n, pass.called) = 1

\* The heap a rule of the latest backward() started from, and the one it left.
HeapBefore(k) == pass.trail[k]

HeapAfter(k) == pass.trail[k + 1]

Children2(h, n) == {c \in 1..Len(h) : n \in Parents(h, c)}

\* C9: backward() invokes the rules in reverse topological order: the root's
\* rule first, the rule of a node only after the rules of all reachable nodes that
\* list it among their parents, when its grad for this pass is complete.
C9_ReverseTopological ==
    Ran =>
        /\ pass.called[1] = pass.root
        /\ \A k \in 1..Len(pass.called) :
              LET n == pass.called[k]
              IN  /\ \A c \in Children2(pass.before, n) \cap Reachable :
                        \E j \in 1..(k - 1) : pass.called[j] = c
                  /\ HeapBefore(k)[n].grad = nodes[n].grad

\* C9 witness: a completed pass over a node that two reachable nodes list as a
\* parent and that has a parent of its own.
C9_Witness ==
    /\ Completed
    /\ \E n \in Reachable :
          /\ Cardinality(Children2(nodes, n) \cap Reachable) >= 2
          /\ Parents(nodes, n) # {}
          /\ nodes[n].grad # Zeros(nodes[n].grad.shape)

\* The grad of node n after the first m accumulation statements of the rule of
\* node c, run on heap h.
RECURSIVE AccumRef(_, _, _, _)
AccumRef(h, c, n, m) ==
    IF m = 0 THEN h[n].grad
    ELSE LET sofar == AccumRef(h, c, n, m - 1)
         IN  IF h[c].prev[m] = n
             THEN NpAdd(sofar, Contribution(h, c, m, h[c].grad))
             ELSE sofar

SameButGrad(h1, h0) ==
    /\ Len(h1) = Len(h0)
    /\ \A n \in 1..Len(h0) :
          /\ h1[n].data = h0[n].data
          /\ h1[n].prev = h0[n].prev
          /\ h1[n].rule = h0[n].rule

\* C10: backward() changes only grads and only by accumulation: the seeding
\* overwrites the root's grad with ones; each rule adds its contribution to the
\* grad of each direct parent and changes nothing else (a rule that raises has
\* run only its first statements); data and parents never change, nor does the
\* grad of a node that is not reachable from the root.
C10_OnlyAccumulation ==
    Ran =>
        /\ pass.trail[1] = [pass.before EXCEPT ![pass.root].grad = SeedOf(pass.before, pass.root)]
        /\ Len(pass.trail) = Len(pass.called) + 1
        /\ nodes = pass.trail[Len(pass.trail)]
        /\ SameButGrad(nodes, pass.before)
        /\ \A n \in (1..Len(nodes)) \ Reachable : nodes[n].grad = pass.before[n].grad
        /\ \A k \in 1..Len(pass.called) :
              LET c == pass.called[k]
                  h0 == HeapBefore(k)
                  h1 == HeapAfter(k)
                  all == Len(h0[c].prev)
              IN  /\ SameButGrad(h1, h0)
                  /\ \E m \in 0..all :
                        /\ m = all \/ (pass.raised /\ k = Len(pass.called))
                        /\ \A n \in 1..Len(h0) : h1[n].grad = AccumRef(h0, c, n, m)

\* C10 witness: a second completed pass over nodes that kept the grads of the
\* first, with a node outside the pass.
C10_Witness ==
    /\ Completed
    /\ npasses = 2
    /\ Reachable # 1..Len(nodes)
    /\ \E n \in Reachable \ {pass.root} :
          /\ pass.before[n].grad # Zeros(pass.before[n].grad.shape)
          /\ nodes[n].grad # pass.before[n].grad

\* The forward value of the operation that built node n of heap h.
Forward(h, n) ==
    LET a == h[h[n].args[1]].data
        b == h[h[n].args[Len(h[n].args)]].data
    IN  CASE h[n].op = "add" -> NpAdd(a, b)
          [] h[n].op = "matmul" -> NpDot(a, b)
          [] h[n].op = "mul" -> NpMultiply(a, b)
          [] h[n].op = "relu" -> NpClip(a)
          [] h[n].op = "T" -> NpT(a)

BuiltByOp(h, n) == h[n].op \notin {"leaf", "unk"}

Untracked(h, n) == BuiltByOp(h, n) /\ ~h[n].born

\* C3: a node built by an operation while the toggle is disabled has no parents
\* and a no-op rule, and still holds the forward value; whatever the toggle is
\* when backward() runs, invoking its rule changes nothing, and backward() on it
\* changes nothing but its own grad.
C3_UntrackedIsInert ==
    /\ \A n \in 1..Len(nodes) :
          Untracked(nodes, n) =>
              /\ nodes[n].prev = <<>>
              /\ nodes[n].rule = "none"
              /\ nodes[n].data = Forward(nodes, n)
    /\ Ran =>
          /\ \A k \in 1..Len(pass.called) :
                Untracked(pass.before, pass.called[k]) => HeapAfter(k) = HeapBefore(k)
          /\ Untracked(pass.before, pass.root) =>
                nodes = [pass.before EXCEPT ![pass.root].grad = SeedOf(pass.before, pass.root)]

\* C3 witness: with tracking enabled again, a completed backward() from a tracked
\* root runs through a node that was built while tracking was disabled; the
\* operand of that node got no gradient.
C3_Witness ==
    /\ Completed
    /\ trackGrad
    /\ ~Untracked(nodes, pass.root)
    /\ \E k \in 2..Len(pass.called) :
          LET u == pass.called[k]
          IN  /\ Untracked(nodes, u)
              /\ nodes[u].grad # Zeros(nodes[u].grad.shape)
              /\ ZeroGradAt(nodes, nodes[u].args[1])

Top(seq) == seq[Len(seq)]

\* C4: the toggle starts enabled and is enabled whenever no scope is open;
\* entering a scope sets it to the state asked for; leaving the innermost scope,
\* normally or with an exception, sets it to the value it had just before that
\* scope was entered.
C4_ScopeRestoresPrior ==
    /\ [](scopes = <<>> => trackGrad)
    /\ [][/\ Len(scopes') > Len(scopes) =>
                /\ trackGrad' = Top(scopes').state
                /\ Top(scopes').held = trackGrad
          /\ Len(scopes') < Len(scopes) => trackGrad' = Top(scopes).held]_vars

\* C4 witness: an exception has left the inner of two nested scopes and the
\* toggle is back to the disabled state the outer scope had set.
C4_Witness ==
    /\ exc
    /\ unwound = 1
    /\ Len(scopes) = 1
    /\ scopes[1].state = FALSE
    /\ nenters = 2
    /\ trackGrad = FALSE

\* C5 as stated: every node's grad has the shape of its data in every state.
C5_GradShapeIsDataShape ==
    \A n \in 1..Len(nodes) : nodes[n].grad.shape = nodes[n].data.shape

\* Node n of heap h is -x: x * -1 with the -1 coerced into a leaf.
IsNegOf(h, n, x) ==
    /\ h[n].rule = "mul"
    /\ h[n].prev[1] = x
    /\ h[h[n].prev[2]].name = "unk"
    /\ h[h[n].prev[2]].data = Scalar(-1)

\* C6 as stated: for Y = -X with X.grad zero, backward() on Y completes without
\* error and leaves X.grad equal to -1 times the seed.
C6_NegationDifferentiable ==
    \A x \in 1..Len(nodes) :
        (Ran /\ IsNegOf(pass.before, pass.root, x) /\ ZeroGradAt(pass.before, x)) =>
            /\ ~pass.raised
            /\ nodes[x].grad = Fill(nodes[x].data.shape, QInt(-1))

\* The latest call was self op other on two existing nodes.
OnNodes(op) == last.op = op /\ Len(last.args) = 2

ShapeOf(n) == nodes[n].data.shape

\* Shapes of two axes that numpy can stretch to a common shape: on each axis the
\* extents agree or one of them is 1.
Compatible(s, t) == \A i \in 1..2 : s[i] = t[i] \/ s[i] = 1 \/ t[i] = 1

\* C7 as stated: add and elementwise multiply of two nodes whose shapes differ
\* raise instead of returning a result.
C7_DifferingShapesRaise ==
    \A op \in {"add", "mul"} :
        (OnNodes(op) /\ ShapeOf(last.args[1]) # ShapeOf(last.args[2])) => last.raised

\* C7 amended: add and elementwise multiply of two nodes raise exactly when the
\* shapes are not broadcast-compatible, matrix product of two nodes raises
\* exactly when the inner dimensions differ, and a call that raises leaves the
\* heap as it was: no node is added and no data, grad or parents change.
C7_IncompatibleShapesRaise ==
    /\ [](\A op \in {"add", "mul"} :
            OnNodes(op) =>
                (last.raised <=> ~Compatible(ShapeOf(last.args[1]), ShapeOf(last.args[2]))))
    /\ [](OnNodes("matmul") =>
            (last.raised <=> ShapeOf(last.args[1])[2] # ShapeOf(last.args[2])[1]))
    /\ [][last'.raised => nodes' = nodes]_vars

\* C7 witness: an add of a leaf and a node built by an earlier operation, of
\* incompatible shapes, has just raised.
C7_Witness ==
    /\ exc
    /\ OnNodes("add")
    /\ last.raised
    /\ ~Compatible(ShapeOf(last.args[1]), ShapeOf(last.args[2]))
    /\ \E i \in 1..2 : BuiltByOp(nodes, last.args[i])

\* C8: for Y = relu(X) built with tracking enabled, Y.data is max(X.data, 0)
\* elementwise; after backward() from Y with X.grad zero beforehand, X.grad is
\* the seed where Y.data > 0 and zero where Y.data = 0; relu leaves X.data as
\* it was.
C8_ReluGradient ==
    /\ [](\A y \in 1..Len(nodes) :
            nodes[y].rule = "relu" =>
                LET x == nodes[y].prev[1]
                IN  /\ nodes[y].data.shape = nodes[x].data.shape
                    /\ \A p \in Idx(nodes[y].data.shape) :
                          Elem(nodes[y].data, p[1], p[2]) =
                              IF QPos(Elem(nodes[x].data, p[1], p[2]))
                              THEN Elem(nodes[x].data, p[1], p[2]) ELSE QInt(0))
    /\ []((Completed /\ pass.before[pass.root].rule = "relu"
              /\ ZeroGradAt(pass.before, pass.before[pass.root].prev[1])) =>
            LET y == pass.root
                x == nodes[y].prev[1]
            IN  /\ nodes[x].grad.shape = nodes[y].data.shape
                /\ \A p \in Idx(nodes[y].data.shape) :
                      Elem(nodes[x].grad, p[1], p[2]) =
                          IF QPos(Elem(nodes[y].data, p[1], p[2]))
                          THEN Elem(SeedOf(nodes, y), p[1], p[2]) ELSE QInt(0))
    /\ [][last'.op = "relu" =>
            \A n \in 1..Len(nodes) : nodes'[n].data = nodes[n].data]_vars

\* C8 witness: backward() from Y = relu(X) has completed where Y.data has both a
\* positive and a zero position, and X.grad is one at the first and zero at the
\* second.
C8_Witness ==
    /\ Completed
    /\ nodes[pass.root].rule = "relu"
    /\ ZeroGradAt(pass.before, nodes[pass.root].prev[1])
    /\ LET y == pass.root
           x == nodes[y].prev[1]
       IN  \E p, q \in Idx(nodes[y].data.shape) :
              /\ QPos(Elem(nodes[y].data, p[1], p[2]))
              /\ Elem(nodes[x].grad, p[1], p[2]) = QInt(1)
              /\ Elem(nodes[y].data, q[1], q[2]) = QInt(0)
              /\ Elem(nodes[x].grad, q[1], q[2]) = QInt(0)

=============================================================================
